---------------------------- MODULE Spec2Model ----------------------------
(***************************************************************************)
(* Currency inflation comparison tool (src/main.py).                       *)
(*                                                                         *)
(* main() is a synchronous pipeline: parse the pair tokens, check the FRED *)
(* key, parse the CPI overrides, download the USD rate of every currency   *)
(* (Yahoo Finance), resolve and download its CPI series (FRED), align the  *)
(* two frames on a shared daily index, resample to month end, compute the  *)
(* report, and write the workbook.  An uncaught ValueError (or a call of   *)
(* parser.error) ends the run.                                             *)
(*                                                                         *)
(* Text is modelled by TLA+ strings, a pandas Series by a function from    *)
(* its index (day numbers) to values, a float by an exact fraction <<n,d>> *)
(* extended with the IEEE specials inf (<<1,0>>), -inf (<<-1,0>>) and NaN  *)
(* (<<0,0>>): rounding error is abstracted, division by zero is not.       *)
(***************************************************************************)
EXTENDS Integers, Sequences, FiniteSets, TLC

VARIABLES
    pc,             \* position of main(): the stage to run next
    args,           \* argparse namespace: pairs, cpi_series, amount, fred_key
    yf,             \* Yahoo Finance answers observed so far: ticker -> frame
    fred,           \* FRED answers observed so far: [series, search]
    calls,          \* external calls issued so far, in order
    pairs,          \* main: pairs
    cpi_overrides,  \* main: cpi_overrides
    currencies,     \* main: currencies
    fx,             \* main: [df |-> fx_df, sources |-> fx_sources]
    cpi,            \* main: [df |-> cpi_df, series |-> cpi_series]
    aligned,        \* main: [fx |-> fx_aligned, cpi |-> cpi_aligned]
    monthly,        \* main: [fx |-> fx_monthly, cpi |-> cpi_monthly]
    tables,         \* main: [detail, summary, sources]
    workbook,       \* the sheets written by save_to_excel, <<>> before
    error,          \* the exception that ended the run, or "none"
    local           \* locals of the running download loop: [i, j, acc, id]

vars == <<pc, args, yf, fred, calls, pairs, cpi_overrides, currencies, fx,
          cpi, aligned, monthly, tables, workbook, error, local>>

None == "None"

-----------------------------------------------------------------------------
(* Text: str.strip, str.upper, str.split, comparison.                      *)

Upper == "ABCDEFGHIJKLMNOPQRSTUVWXYZ"
\* characters of the model in code-point order
Ascii == " -0123456789=ABCDEFGHIJKLMNOPQRSTUVWXYZ_abcdefghijklmnopqrstuvwxyz"

CharAt(s, i) == SubSeq(s, i, i)

RECURSIVE Find(_, _, _)
\* str.find: first position >= i of character c in s, 0 when absent
Find(s, c, i) ==
    IF i > Len(s) THEN 0
    ELSE IF CharAt(s, i) = c THEN i
    ELSE Find(s, c, i + 1)

Contains(s, c) == Find(s, c, 1) # 0

\* position of c in the lower-case alphabet, 0 for any other character
lower_index(c) ==
    CASE c = "a" -> 1 [] c = "b" -> 2 [] c = "c" -> 3 [] c = "d" -> 4
      [] c = "e" -> 5 [] c = "f" -> 6 [] c = "g" -> 7 [] c = "h" -> 8
      [] c = "i" -> 9 [] c = "j" -> 10 [] c = "k" -> 11 [] c = "l" -> 12
      [] c = "m" -> 13 [] c = "n" -> 14 [] c = "o" -> 15 [] c = "p" -> 16
      [] c = "q" -> 17 [] c = "r" -> 18 [] c = "s" -> 19 [] c = "t" -> 20
      [] c = "u" -> 21 [] c = "v" -> 22 [] c = "w" -> 23 [] c = "x" -> 24
      [] c = "y" -> 25 [] c = "z" -> 26 [] OTHER -> 0

upper_char(c) ==
    LET i == lower_index(c) IN IF i = 0 THEN c ELSE CharAt(Upper, i)

RECURSIVE upper(_)
upper(s) == IF s = "" THEN "" ELSE upper_char(Head(s)) \o upper(Tail(s))

RECURSIVE lstrip(_)
lstrip(s) == IF s # "" /\ Head(s) = " " THEN lstrip(Tail(s)) ELSE s

RECURSIVE rstrip(_)
rstrip(s) ==
    IF s # "" /\ CharAt(s, Len(s)) = " "
    THEN rstrip(SubSeq(s, 1, Len(s) - 1))
    ELSE s

strip(s) == rstrip(lstrip(s))

\* s.split(c, maxsplit=1) for s containing c
split_once(s, c) ==
    LET i == Find(s, c, 1)
    IN  <<SubSeq(s, 1, i - 1), SubSeq(s, i + 1, Len(s))>>

RECURSIVE split(_, _)
\* s.split(c)
split(s, c) ==
    LET i == Find(s, c, 1)
    IN  IF i = 0 THEN <<s>>
        ELSE <<SubSeq(s, 1, i - 1)>> \o split(SubSeq(s, i + 1, Len(s)), c)

RECURSIVE str_lt(_, _)
\* s < t, the order sort_values uses on a column of str
str_lt(s, t) ==
    IF t = "" THEN FALSE
    ELSE IF s = "" THEN TRUE
    ELSE IF Head(s) = Head(t) THEN str_lt(Tail(s), Tail(t))
    ELSE Find(Ascii, Head(s), 1) < Find(Ascii, Head(t), 1)

Range(f) == {f[i] : i \in DOMAIN f}

-----------------------------------------------------------------------------
(* Floats as extended fractions.                                           *)

Abs(n) == IF n < 0 THEN -n ELSE n
Sign(n) == IF n < 0 THEN -1 ELSE IF n > 0 THEN 1 ELSE 0

RECURSIVE Gcd(_, _)
Gcd(a, b) == IF b = 0 THEN a ELSE Gcd(b, a % b)

\* the fraction n/d in lowest terms, d >= 0; d = 0 gives inf, -inf or NaN
Frac(n, d) ==
    IF d = 0 THEN <<Sign(n), 0>>
    ELSE LET g == Gcd(Abs(n), Abs(d)) * Sign(d) IN <<n \div g, d \div g>>

Num(n) == <<n, 1>>
NaN == <<0, 0>>
Inf == <<1, 0>>

isna(x) == x = NaN
IsFinite(x) == x[2] # 0

\* x * y (cross-cancelled first, so that the products stay small)
Mul(x, y) ==
    IF x[2] = 0 \/ y[2] = 0 THEN Frac(Sign(x[1]) * Sign(y[1]), 0)
    ELSE LET g1 == Gcd(Abs(x[1]), y[2])
             g2 == Gcd(Abs(y[1]), x[2])
             a == IF g1 = 0 THEN 0 ELSE x[1] \div g1
             d == IF g1 = 0 THEN 1 ELSE y[2] \div g1
             c == IF g2 = 0 THEN 0 ELSE y[1] \div g2
             b == IF g2 = 0 THEN 1 ELSE x[2] \div g2
         IN  Frac(a * c, b * d)

\* 1 / y; 1/0 = inf, 1/inf = 0, 1/NaN = NaN
Recip(y) ==
    IF y = NaN THEN NaN
    ELSE IF y[2] = 0 THEN Num(0)
    ELSE IF y[1] = 0 THEN Inf
    ELSE Frac(y[2] * Sign(y[1]), Abs(y[1]))

\* x / y; x/0 = +-inf, 0/0 = NaN, inf/inf = NaN
Div(x, y) ==
    IF y[1] = 0 /\ y[2] # 0
    THEN Frac(Sign(x[1]), 0)
    ELSE Mul(x, Recip(y))

\* x - y; inf - inf = NaN
Sub(x, y) ==
    IF x = NaN \/ y = NaN THEN NaN
    ELSE IF x[2] = 0 /\ y[2] = 0 THEN Frac(x[1] - y[1], 0)
    ELSE IF x[2] = 0 THEN x
    ELSE IF y[2] = 0 THEN <<-y[1], 0>>
    ELSE Frac(x[1] * y[2] - y[1] * x[2], x[2] * y[2])

RECURSIVE Pow10(_)
Pow10(k) == IF k = 0 THEN 1 ELSE 10 * Pow10(k - 1)

RECURSIVE Digits(_, _, _)
\* the first k decimals of r/d (0 <= r < d) as an integer, and the remainder
Digits(r, d, k) ==
    IF k = 0 THEN <<0, r>>
    ELSE LET q == (r * 10) \div d
             t == Digits((r * 10) % d, d, k - 1)
         IN  <<q * Pow10(k - 1) + t[1], t[2]>>

\* round(x, k): to k decimals, halves to even (numpy.round); specials stay
Round(x, k) ==
    IF x[2] = 0 THEN x
    ELSE LET ip == x[1] \div x[2]
             dg == Digits(x[1] % x[2], x[2], k)
             m  == ip * Pow10(k) + dg[1]
             up == 2 * dg[2] > x[2] \/ (2 * dg[2] = x[2] /\ m % 2 = 1)
         IN  Frac(IF up THEN m + 1 ELSE m, Pow10(k))

-----------------------------------------------------------------------------
(* Command-line parsing.                                                   *)

RECURSIVE parse_pairs_from(_, _, _)
\* the loop of parse_currency_pairs from token i on, formatted_pairs = acc
parse_pairs_from(raw, i, acc) ==
    IF i > Len(raw)
    THEN IF acc = <<>> THEN [error |-> "no_pairs", value |-> None]
         ELSE [error |-> "none", value |-> acc]
    ELSE LET cleaned == upper(strip(raw[i])) IN
         IF cleaned = "" THEN parse_pairs_from(raw, i + 1, acc)
         ELSE IF ~Contains(cleaned, "-")
         THEN [error |-> "pair_missing_separator", value |-> None]
         ELSE LET code_a == split_once(cleaned, "-")[1]
                  code_b == split_once(cleaned, "-")[2]
              IN  IF Len(code_a) # 3 \/ Len(code_b) # 3
                  THEN [error |-> "pair_code_length", value |-> None]
                  ELSE parse_pairs_from(raw, i + 1,
                                        Append(acc, code_a \o "-" \o code_b))

parse_currency_pairs(raw) == parse_pairs_from(raw, 1, <<>>)

\* the two ValueErrors of parse_currency_pairs that reject a token
InvalidPairFormat == {"pair_missing_separator", "pair_code_length"}

RECURSIVE append_new(_, _)
\* append to acc the elements of codes that acc does not hold yet
append_new(acc, codes) ==
    IF codes = <<>> THEN acc
    ELSE append_new(IF Head(codes) \in Range(acc) THEN acc
                    ELSE Append(acc, Head(codes)),
                    Tail(codes))

RECURSIVE collect_currency_codes(_)
collect_currency_codes(ps) ==
    IF ps = <<>> THEN <<>>
    ELSE LET n == Len(ps)
         IN  append_new(collect_currency_codes(SubSeq(ps, 1, n - 1)),
                        split(ps[n], "-"))

RECURSIVE parse_overrides_from(_, _, _)
\* the loop of parse_cpi_overrides from item i on, overrides = acc
parse_overrides_from(raw, i, acc) ==
    IF i > Len(raw) THEN [error |-> "none", value |-> acc]
    ELSE IF ~Contains(raw[i], "=")
    THEN [error |-> "override_missing_equals", value |-> None]
    ELSE LET code == upper(strip(split_once(raw[i], "=")[1]))
             series_id == strip(split_once(raw[i], "=")[2])
         IN  IF Len(code) # 3 \/ series_id = ""
             THEN [error |-> "override_bad_code_or_id", value |-> None]
             ELSE parse_overrides_from(raw, i + 1,
                      [c \in DOMAIN acc \cup {code} |->
                          IF c = code THEN series_id ELSE acc[c]])

parse_cpi_overrides(raw) == parse_overrides_from(raw, 1, <<>>)

-----------------------------------------------------------------------------
(* pandas Series and DataFrame.  A Series is a function from its index (a  *)
(* set of day numbers, kept in date order) to values; a DataFrame is       *)
(* [index, data] with data[column] a Series over index.                    *)

SetMax(S) == CHOOSE m \in S : \A x \in S : x <= m
SetMin(S) == CHOOSE m \in S : \A x \in S : m <= x

EmptySeries == [t \in {} |-> NaN]

\* Series.dropna
dropna(s) == [t \in {u \in DOMAIN s : ~isna(s[u])} |-> s[t]]

\* Series.ffill: a missing value takes the last valid value before it
ffill(s) ==
    [t \in DOMAIN s |->
        IF ~isna(s[t]) THEN s[t]
        ELSE LET before == {u \in DOMAIN s : u < t /\ ~isna(s[u])}
             IN  IF before = {} THEN NaN ELSE s[SetMax(before)]]

\* Series.resample("D").ffill(): every day from the first to the last index
\* entry, each with the value of the last index entry on or before it
resample_daily_ffill(s) ==
    IF DOMAIN s = {} THEN s
    ELSE [t \in SetMin(DOMAIN s)..SetMax(DOMAIN s) |->
             s[SetMax({u \in DOMAIN s : u <= t})]]

\* a defect: the fill without the daily upsampling
fill_daily_no_upsample(s) == ffill(s)

\* series.ffill().resample("D").ffill()
fill_daily(s) == resample_daily_ffill(ffill(s))

\* 1 / series
invert_series(s) == [t \in DOMAIN s |-> Recip(s[t])]

\* pd.concat(series_list, axis=1): outer join on the union of the indexes
concat(series_by_name) ==
    LET idx == UNION {DOMAIN series_by_name[c] : c \in DOMAIN series_by_name}
    IN  [index |-> idx,
         data  |-> [c \in DOMAIN series_by_name |->
                       [t \in idx |-> IF t \in DOMAIN series_by_name[c]
                                      THEN series_by_name[c][t] ELSE NaN]]]

\* DataFrame.loc[rows]
loc(df, rows) ==
    [index |-> rows,
     data  |-> [c \in DOMAIN df.data |-> [t \in rows |-> df.data[c][t]]]]

\* DataFrame.dropna: drop the rows that hold a missing value
dropna_rows(df) ==
    loc(df, {t \in df.index : \A c \in DOMAIN df.data : ~isna(df.data[c][t])})

-----------------------------------------------------------------------------
(* The calendar.  Days are numbered from args.start; a month is            *)
(* DaysPerMonth consecutive days.                                          *)

MaxDay == 3
DaysPerMonth == 2

StartDay == 1                \* args.start (DEFAULT_START_DATE)
EndDay == MaxDay             \* end_date: the day of the run
Days == StartDay..EndDay

month_of(t) == (t - 1) \div DaysPerMonth

-----------------------------------------------------------------------------
(* load_usd_fx_rate and download_fx_data.                                  *)

\* pd.Series(1.0, index=pd.date_range(start_date, end_date, freq="D"))
usd_series == [t \in StartDay..EndDay |-> Num(1)]

\* a defect: the inverted quote is tried first
fx_candidates_inverted_first(code) ==
    << [ticker |-> "USD" \o code \o "=X", invert |-> TRUE],
       [ticker |-> code \o "USD=X", invert |-> FALSE] >>

\* the candidates of load_usd_fx_rate, in the order they are tried
fx_candidates(code) ==
    << [ticker |-> code \o "USD=X", invert |-> FALSE],
       [ticker |-> "USD" \o code \o "=X", invert |-> TRUE] >>

\* one iteration of the candidate loop on the frame yf.download returned:
\* ok = FALSE stands for `continue`
fx_try(data, invert) ==
    IF ~data.has_close THEN [ok |-> FALSE, series |-> EmptySeries]
    ELSE LET series == dropna(data.close) IN
         IF DOMAIN series = {} THEN [ok |-> FALSE, series |-> EmptySeries]
         ELSE LET filled == fill_daily(series)
              IN  [ok |-> TRUE,
                   series |-> IF invert THEN invert_series(filled) ELSE filled]

\* the tail of download_fx_data: concat, dropna, the empty check
fx_frame(series_list) == dropna_rows(concat(series_list))

-----------------------------------------------------------------------------
(* infer_cpi_series_id and download_cpi_series.                            *)

manual_defaults ==
    [USD |-> "CPIAUCNS", GBP |-> "GBRCPIALLMINMEI", JPY |-> "JPNCPIALLMINMEI",
     EUR |-> "CP0000EZ19M086NEST", AUD |-> "AUSCPIALLMINMEI",
     CAD |-> "CPALTT01CAM661N", CHF |-> "CP0000CHM086NEST",
     CNY |-> "CHNCPIALLMINMEI", KRW |-> "KORCPIALLMINMEI",
     SGD |-> "SGPCPIALLMINMEI"]

\* the part of infer_cpi_series_id that needs no catalog search
has_fixed_id(code, overrides) ==
    code \in DOMAIN overrides \/ code \in DOMAIN manual_defaults

\* a defect: the fixed table is consulted before the overrides
fixed_id_table_first(code, overrides) ==
    IF code \in DOMAIN manual_defaults THEN manual_defaults[code]
    ELSE overrides[code]

fixed_id(code, overrides) ==
    IF code \in DOMAIN overrides THEN overrides[code]
    ELSE manual_defaults[code]

search_terms(code) ==
    << code \o " consumer price index all items",
       code \o " consumer price index",
       code \o " CPI",
       code >>

\* Series.str.contains(pat, case=False, na=False) on one value
str_contains(s, pat) ==
    /\ s # None
    /\ \E i \in 1..(Len(s) - Len(pat) + 1) :
          \A k \in 1..Len(pat) :
              upper_char(CharAt(s, i + k - 1)) = upper_char(CharAt(pat, k))

\* a defect: popularity sorted ascending
sort_columns_ascending(columns) ==
    (IF "popularity" \in columns
     THEN <<[col |-> "popularity", asc |-> TRUE]>> ELSE <<>>)
    \o (IF "search_rank" \in columns
        THEN <<[col |-> "search_rank", asc |-> TRUE]>> ELSE <<>>)

\* the (column, ascending) list infer_cpi_series_id sorts by
sort_columns(columns) ==
    (IF "popularity" \in columns
     THEN <<[col |-> "popularity", asc |-> FALSE]>> ELSE <<>>)
    \o (IF "search_rank" \in columns
        THEN <<[col |-> "search_rank", asc |-> TRUE]>> ELSE <<>>)

RECURSIVE row_lt(_, _, _)
\* row a sorts strictly before row b under the keys
row_lt(a, b, keys) ==
    IF keys = <<>> THEN FALSE
    ELSE LET k == Head(keys) IN
         IF a[k.col] = b[k.col] THEN row_lt(a, b, Tail(keys))
         ELSE IF k.asc THEN a[k.col] < b[k.col] ELSE a[k.col] > b[k.col]

RECURSIVE insert_row(_, _, _)
\* r put before the first row that sorts strictly after it
insert_row(sorted, r, keys) ==
    IF sorted = <<>> THEN <<r>>
    ELSE IF row_lt(r, Head(sorted), keys) THEN <<r>> \o sorted
    ELSE <<Head(sorted)>> \o insert_row(Tail(sorted), r, keys)

RECURSIVE sort_values(_, _)
\* DataFrame.sort_values(columns, ascending=orders); equal rows keep their
\* order (frames of this size are sorted by insertion)
sort_values(rows, keys) ==
    IF rows = <<>> THEN <<>>
    ELSE insert_row(sort_values(SubSeq(rows, 1, Len(rows) - 1), keys),
                    rows[Len(rows)], keys)

\* the filters of one iteration of the search loop
search_candidates(results) ==
    LET monthly_rows ==
            IF "frequency" \in results.columns
            THEN SelectSeq(results.rows,
                           LAMBDA r : str_contains(r.frequency, "Monthly"))
            ELSE results.rows
        titled == SelectSeq(monthly_rows,
                      LAMBDA r : str_contains(r.title, "Consumer Price Index"))
        all_items == SelectSeq(titled,
                      LAMBDA r : str_contains(r.title, "All Items"))
    IN  IF "title" \notin results.columns THEN monthly_rows
        ELSE IF all_items # <<>> THEN all_items
        ELSE titled

\* one iteration of the search loop on what fred.search returned:
\* found = FALSE stands for falling through to the next term
search_pick(results) ==
    IF results.is_none \/ results.rows = <<>>
    THEN [found |-> FALSE, id |-> None]
    ELSE LET candidates == search_candidates(results) IN
         IF candidates = <<>> THEN [found |-> FALSE, id |-> None]
         ELSE LET top_row ==
                      sort_values(candidates, sort_columns(results.columns))[1]
              IN  IF "id" \in results.columns
                  THEN [found |-> TRUE, id |-> top_row.id]
                  ELSE IF "series_id" \in results.columns
                  THEN [found |-> TRUE, id |-> top_row.series_id]
                  ELSE [found |-> FALSE, id |-> None]

\* the tail of download_cpi_series: concat, dropna, the empty check
cpi_frame(frames) == dropna_rows(concat(frames))

-----------------------------------------------------------------------------
(* align_datasets and resample_monthly.                                    *)

EmptyFrame == [index |-> {}, data |-> <<>>]

\* a defect: the frames are returned without the .loc[common_index]
align_datasets_no_loc(fx_df, cpi_df) ==
    IF fx_df.index \cap cpi_df.index = {}
    THEN [error |-> "no_common_period", fx |-> EmptyFrame, cpi |-> EmptyFrame]
    ELSE [error |-> "none", fx |-> fx_df, cpi |-> cpi_df]

align_datasets(fx_df, cpi_df) ==
    LET common_index == fx_df.index \cap cpi_df.index IN
    IF common_index = {}
    THEN [error |-> "no_common_period", fx |-> EmptyFrame, cpi |-> EmptyFrame]
    ELSE [error |-> "none",
          fx  |-> loc(fx_df, common_index),
          cpi |-> loc(cpi_df, common_index)]

\* Series.resample("M").last(): one row per month from the first to the last
\* month of the index, holding the last valid value of the month
month_last(s) ==
    IF DOMAIN s = {} THEN s
    ELSE [m \in month_of(SetMin(DOMAIN s))..month_of(SetMax(DOMAIN s)) |->
             LET valid == {t \in DOMAIN s : month_of(t) = m /\ ~isna(s[t])}
             IN  IF valid = {} THEN NaN ELSE s[SetMax(valid)]]

\* DataFrame.resample("M").last()
resample_m_last(df) ==
    [index |-> IF df.index = {} THEN {}
               ELSE month_of(SetMin(df.index))..month_of(SetMax(df.index)),
     data  |-> [c \in DOMAIN df.data |-> month_last(df.data[c])]]

resample_monthly(fx_df, cpi_df) ==
    IF fx_df.index # cpi_df.index
    THEN [error |-> "calendar_mismatch", fx |-> EmptyFrame, cpi |-> EmptyFrame]
    ELSE [error |-> "none",
          fx  |-> resample_m_last(fx_df),
          cpi |-> resample_m_last(cpi_df)]

-----------------------------------------------------------------------------
(* build_inflation_report, create_summary, build_sources_table,            *)
(* save_to_excel.                                                          *)

Hundred == Num(100)

\* Series.pct_change(periods=12) * 100.0 at row t of a monthly series
yoy_pct(s, t) ==
    IF t - 12 \in DOMAIN s
    THEN Mul(Sub(Div(s[t], s[t - 12]), Num(1)), Hundred)
    ELSE NaN

\* a defect: the base taken from the last row
iloc_last(s) == s[SetMax(DOMAIN s)]

\* series.iloc[0] of a monthly series
iloc0(s) == s[SetMin(DOMAIN s)]

\* a defect: the amount inflated instead of deflated
real_value_inflated(amount, inflation_index, fx_usd) ==
    Mul(Mul(amount, inflation_index), fx_usd)

\* (amount / inflation_index) * fx_usd at one row
real_value(amount, inflation_index, fx_usd) ==
    Mul(Div(amount, inflation_index), fx_usd)

\* the records build_inflation_report appends for one pair "A-B"
pair_records(fx_monthly, cpi_monthly, pair, base_amount) ==
    LET code_a == split(pair, "-")[1]
        code_b == split(pair, "-")[2]
        fx_a_usd == fx_monthly.data[code_a]
        fx_b_usd == fx_monthly.data[code_b]
        first == SetMin(fx_monthly.index)           \* .iloc[0]
        fx_a_to_b == [t \in fx_monthly.index |-> Div(fx_a_usd[t], fx_b_usd[t])]
        cpi_a == cpi_monthly.data[code_a]
        cpi_b == cpi_monthly.data[code_b]
        base_fx_ratio == iloc0(fx_a_to_b)
        base_cpi_a == iloc0(cpi_a)
        base_cpi_b == iloc0(cpi_b)
        initial_amount_b == Mul(base_amount, base_fx_ratio)
        inflation_index_a == [t \in fx_monthly.index |-> Div(cpi_a[t], base_cpi_a)]
        inflation_index_b == [t \in fx_monthly.index |-> Div(cpi_b[t], base_cpi_b)]
        inflation_pct_a ==
            [t \in fx_monthly.index |->
                Mul(Sub(inflation_index_a[t], Num(1)), Hundred)]
        inflation_pct_b ==
            [t \in fx_monthly.index |->
                Mul(Sub(inflation_index_b[t], Num(1)), Hundred)]
        real_value_a_usd ==
            [t \in fx_monthly.index |->
                real_value(base_amount, inflation_index_a[t], fx_a_usd[t])]
        real_value_b_usd ==
            [t \in fx_monthly.index |->
                real_value(initial_amount_b, inflation_index_b[t], fx_b_usd[t])]
        n == Cardinality(fx_monthly.index)
    IN  [k \in 1..n |->
            LET timestamp == first + k - 1 IN
            [Pair |-> pair,
             Month |-> timestamp,
             Currency_A |-> code_a,
             Currency_B |-> code_b,
             Inflation_Index_A |-> inflation_index_a[timestamp],
             Inflation_Index_B |-> inflation_index_b[timestamp],
             Inflation_Change_A |-> inflation_pct_a[timestamp],
             Inflation_Change_B |-> inflation_pct_b[timestamp],
             Inflation_Difference |->
                 Sub(inflation_pct_a[timestamp], inflation_pct_b[timestamp]),
             YoY_Inflation_A |-> yoy_pct(cpi_a, timestamp),
             YoY_Inflation_B |-> yoy_pct(cpi_b, timestamp),
             FX_A_USD |-> fx_a_usd[timestamp],
             FX_B_USD |-> fx_b_usd[timestamp],
             FX_A_B |-> fx_a_to_b[timestamp],
             Real_Value_A |-> real_value_a_usd[timestamp],
             Real_Value_B |-> real_value_b_usd[timestamp],
             Purchasing_Power_Ratio |->
                 Div(real_value_a_usd[timestamp], real_value_b_usd[timestamp])]]

\* record a sorts strictly before record b by ["Pair", "Month"]
record_lt(a, b) ==
    \/ str_lt(a.Pair, b.Pair)
    \/ a.Pair = b.Pair /\ a.Month < b.Month

RECURSIVE insert_record(_, _)
insert_record(sorted, r) ==
    IF sorted = <<>> THEN <<r>>
    ELSE IF record_lt(r, Head(sorted)) THEN <<r>> \o sorted
    ELSE <<Head(sorted)>> \o insert_record(Tail(sorted), r)

RECURSIVE sort_records(_)
\* detail_df.sort_values(["Pair", "Month"])
sort_records(records) ==
    IF records = <<>> THEN <<>>
    ELSE insert_record(sort_records(SubSeq(records, 1, Len(records) - 1)),
                       records[Len(records)])

RECURSIVE report_from(_, _, _, _, _, _)
\* the pair loop of build_inflation_report from pair i on
report_from(fx_monthly, cpi_monthly, ps, base_amount, i, records) ==
    IF i > Len(ps) THEN [error |-> "none", value |-> sort_records(records)]
    ELSE IF Len(split(ps[i], "-")) # 2
    THEN [error |-> "unpack_pair", value |-> <<>>]
    ELSE report_from(fx_monthly, cpi_monthly, ps, base_amount, i + 1,
             records \o pair_records(fx_monthly, cpi_monthly, ps[i], base_amount))

build_inflation_report(fx_monthly, cpi_monthly, ps, base_amount) ==
    report_from(fx_monthly, cpi_monthly, ps, base_amount, 1, <<>>)

\* the last row of every pair, in the order of the detail table
create_summary(detail_df) ==
    LET sorted == sort_records(detail_df)
        keep == {i \in 1..Len(sorted) :
                    \A j \in (i + 1)..Len(sorted) : sorted[j].Pair # sorted[i].Pair}
    IN  [k \in 1..Cardinality(keep) |->
            sorted[CHOOSE i \in keep :
                      Cardinality({j \in keep : j <= i}) = k]]

RECURSIVE insert_source(_, _)
insert_source(sorted, r) ==
    IF sorted = <<>> THEN <<r>>
    ELSE IF str_lt(r.Currency, Head(sorted).Currency) THEN <<r>> \o sorted
    ELSE <<Head(sorted)>> \o insert_source(Tail(sorted), r)

RECURSIVE sources_from(_, _, _, _)
sources_from(codes, fx_sources, cpi_series, i) ==
    IF i = 0 THEN <<>>
    ELSE insert_source(
             sources_from(codes, fx_sources, cpi_series, i - 1),
             [Currency |-> codes[i],
              FX_Source |-> IF codes[i] \in DOMAIN fx_sources
                            THEN fx_sources[codes[i]] ELSE "USD (1.0)",
              CPI_Series |-> cpi_series[codes[i]]])

\* one row per currency, sorted by "Currency"
build_sources_table(codes, fx_sources, cpi_series) ==
    sources_from(codes, fx_sources, cpi_series, Len(codes))

\* the float columns of the detail and summary tables
NumericColumns ==
    {"Inflation_Index_A", "Inflation_Index_B", "Inflation_Change_A",
     "Inflation_Change_B", "Inflation_Difference", "YoY_Inflation_A",
     "YoY_Inflation_B", "FX_A_USD", "FX_B_USD", "FX_A_B", "Real_Value_A",
     "Real_Value_B", "Purchasing_Power_Ratio"}

\* df[numeric_cols].round(4) on one row (Month is kept as the month number)
round_row(r) ==
    [c \in DOMAIN r |-> IF c \in NumericColumns THEN Round(r[c], 4) ELSE r[c]]

\* the three sheets save_to_excel writes
save_to_excel(summary_df, detail_df, sources_df) ==
    [Summary |-> [k \in DOMAIN summary_df |-> round_row(summary_df[k])],
     Monthly_Detail |-> [k \in DOMAIN detail_df |-> round_row(detail_df[k])],
     Sources |-> sources_df]

-----------------------------------------------------------------------------
(* The data providers.  What Yahoo Finance and FRED answer is not decided  *)
(* by the program: every call draws its answer from the set below for the  *)
(* ticker, series id or search term asked, and the same question gets the  *)
(* same answer for the rest of the run.  Each group of currencies explores *)
(* one dimension of the answers; any other code gets one plain answer.     *)

MaxRows == 2                 \* rows of a catalog search result

Frame(s) == [has_close |-> TRUE, close |-> s]
NoFrame == [has_close |-> FALSE, close |-> EmptySeries]

\* observations on the first and on the last day
DefaultSeries == (StartDay :> Num(1)) @@ (EndDay :> Num(2))

\* SGD rates, CNY index: any observations, missing values and zero included
FillSeries ==
    UNION {[D -> {NaN, Num(0), Num(1), Num(2)}] : D \in SUBSET Days}

\* AUD, CAD: any first and last observation, or none at all
CalendarSeries ==
    {EmptySeries} \cup
    {[t \in {a, b} |-> Num(1)] : a \in Days, b \in Days}

\* EUR, CHF rates: a quote on every day
ReportRates ==
    [Days -> {Num(1), Num(2)}] \cup
    {[t \in Days |-> Num(0)],
     [t \in Days |-> IF t = EndDay THEN Num(0) ELSE Num(1)]}

MonthStarts == {t \in Days : t = StartDay \/ month_of(t) # month_of(t - 1)}

\* EUR, CHF index: one observation per month, or one per day
ReportIndexes ==
    [MonthStarts -> {Num(1), Num(2)}] \cup
    {[t \in MonthStarts |-> Num(0)],
     [t \in Days |-> IF t = StartDay THEN Num(1) ELSE Num(2)]}

\* GBP, JPY: the worked example of the documentation
ScenarioSeries(at_t0, at_t1) == (StartDay :> at_t0) @@ (EndDay :> at_t1)

\* yf.download(ticker, ...)
YfResponses(ticker) ==
    CASE ticker \in {"SGDUSD=X", "USDSGD=X"} ->
            {NoFrame} \cup {Frame(s) : s \in FillSeries}
      [] ticker \in {"AUDUSD=X", "USDAUD=X", "CADUSD=X", "USDCAD=X"} ->
            {Frame(s) : s \in CalendarSeries}
      [] ticker \in {"EURUSD=X", "CHFUSD=X"} ->
            {Frame(s) : s \in ReportRates}
      [] ticker = "GBPUSD=X" ->
            {Frame(ScenarioSeries(Frac(130, 100), Frac(125, 100)))}
      [] ticker = "JPYUSD=X" -> {Frame(EmptySeries)}
      [] ticker = "USDJPY=X" ->
            {Frame(ScenarioSeries(Num(150), Num(148)))}
      [] OTHER -> {Frame(DefaultSeries)}

\* fred.get_series(series_id, observation_start=start_date)
FredSeriesResponses(series_id) ==
    CASE series_id = "CHNCPIALLMINMEI" -> FillSeries
      [] series_id \in {"AUSCPIALLMINMEI", "CPALTT01CAM661N"} -> CalendarSeries
      [] series_id \in {"CP0000EZ19M086NEST", "CP0000CHM086NEST"} ->
            ReportIndexes
      [] series_id = "GBRCPIALLMINMEI" ->
            {ScenarioSeries(Num(100), Num(102))}
      [] series_id = "JPNCPIALLMINMEI" ->
            {ScenarioSeries(Num(100), Num(101))}
      [] OTHER -> {DefaultSeries}

SearchColumns == {"id", "title", "frequency", "popularity", "search_rank"}

\* a search result: the rows get their ids from their position
Result(attrs) ==
    [is_none |-> FALSE,
     columns |-> SearchColumns,
     rows    |-> [k \in DOMAIN attrs |->
                    [id |-> "ID" \o CharAt("123456789", k),
                     title |-> attrs[k].title,
                     frequency |-> attrs[k].frequency,
                     popularity |-> attrs[k].popularity,
                     search_rank |-> attrs[k].search_rank]]]

NoneResult == [is_none |-> TRUE, columns |-> {}, rows |-> <<>>]

\* rows the filters keep: monthly consumer price indexes
CandidateAttrs ==
    {[title |-> t, frequency |-> "Monthly", popularity |-> p, search_rank |-> k] :
        t \in {"Consumer Price Index: All Items for Brazil",
               "consumer price index: food for Brazil"},
        p \in 1..2, k \in 1..2}

\* rows the filters drop, each more popular than any candidate
OtherAttrs ==
    {[title |-> "Producer Price Index: All Items", frequency |-> "Monthly",
      popularity |-> 3, search_rank |-> 1],
     [title |-> "Consumer Price Index: All Items for Brazil",
      frequency |-> "Quarterly", popularity |-> 3, search_rank |-> 1]}

DefaultResult ==
    Result(<<[title |-> "Consumer Price Index: All Items",
              frequency |-> "Monthly", popularity |-> 1, search_rank |-> 1]>>)

\* results the filters leave nothing of
UnusableResults ==
    {NoneResult, Result(<<>>)} \cup {Result(<<a>>) : a \in OtherAttrs}

\* BRL, first term: nothing usable, or up to MaxRows rows of which one at
\* least is usable
BrlResults ==
    UnusableResults \cup
    {Result(a) : a \in {b \in UNION {[1..n -> CandidateAttrs \cup OtherAttrs] :
                                        n \in 1..MaxRows} :
                           \E k \in DOMAIN b : b[k] \in CandidateAttrs}}

\* BRL, the more generic terms: nothing usable, or one usable answer
BrlLaterResults == UnusableResults \cup {DefaultResult}

\* fred.search(term)
FredSearchResponses(term) ==
    CASE term = search_terms("BRL")[1] -> BrlResults
      [] term \in Range(search_terms("BRL")) -> BrlLaterResults
      [] term \in Range(search_terms("XYZ")) -> {NoneResult, DefaultResult}
      [] OTHER -> {DefaultResult}

-----------------------------------------------------------------------------
(* main().                                                                 *)

Stages ==
    << "parse_currency_pairs", "check_fred_key", "parse_cpi_overrides",
       "download_fx_data", "download_cpi_series", "align_datasets",
       "resample_monthly", "build_inflation_report", "build_tables",
       "save_to_excel", "done" >>

StageNo(p) == CHOOSE k \in DOMAIN Stages : Stages[k] = p

\* the locals of download_fx_data / download_cpi_series on entry:
\* currency i, candidate or search term j, the series and identifiers so far
NewLocal(fn) ==
    [fn |-> fn, i |-> 1, j |-> 1, acc |-> <<>>, ids |-> <<>>,
     resolved |-> FALSE, id |-> ""]

NoTables == [detail |-> <<>>, summary |-> <<>>, sources |-> <<>>]

\* the state on entry to main, after request_missing_arguments
Start(a) ==
    /\ pc = "parse_currency_pairs"
    /\ args = a
    /\ yf = <<>>
    /\ fred = [series |-> <<>>, search |-> <<>>]
    /\ calls = <<>>
    /\ pairs = <<>>
    /\ cpi_overrides = <<>>
    /\ currencies = <<>>
    /\ fx = [df |-> EmptyFrame, sources |-> <<>>]
    /\ cpi = [df |-> EmptyFrame, series |-> <<>>]
    /\ aligned = [fx |-> EmptyFrame, cpi |-> EmptyFrame]
    /\ monthly = [fx |-> EmptyFrame, cpi |-> EmptyFrame]
    /\ tables = NoTables
    /\ workbook = <<>>
    /\ error = "none"
    /\ local = NewLocal("")

\* a defect: the exception is swallowed and the run goes on to the writer
Raise_swallowed(e) ==
    /\ pc' = "save_to_excel"
    /\ error' = e

\* an exception leaves main (parser.error exits): the run is over
Raise(e) ==
    /\ pc' = "failed"
    /\ error' = e

\* f with key k bound to v
Put(f, k, v) == [x \in DOMAIN f \cup {k} |-> IF x = k THEN v ELSE f[x]]

ParsePairs ==
    /\ pc = "parse_currency_pairs"
    /\ LET r == parse_currency_pairs(args.pairs) IN
       IF r.error # "none"
       THEN Raise(r.error) /\ UNCHANGED pairs
       ELSE pairs' = r.value /\ pc' = "check_fred_key" /\ UNCHANGED error
    /\ UNCHANGED <<args, yf, fred, calls, cpi_overrides, currencies, fx, cpi,
                   aligned, monthly, tables, workbook, local>>

CheckFredKey ==
    /\ pc = "check_fred_key"
    /\ IF args.fred_key = ""
       THEN Raise("no_fred_key")
       ELSE pc' = "parse_cpi_overrides" /\ UNCHANGED error
    /\ UNCHANGED <<args, yf, fred, calls, pairs, cpi_overrides, currencies,
                   fx, cpi, aligned, monthly, tables, workbook, local>>

\* parse_cpi_overrides, collect_currency_codes, and the entry of
\* download_fx_data
ParseOverrides ==
    /\ pc = "parse_cpi_overrides"
    /\ LET r == parse_cpi_overrides(args.cpi_series) IN
       IF r.error # "none"
       THEN Raise(r.error) /\ UNCHANGED <<cpi_overrides, currencies, local>>
       ELSE /\ cpi_overrides' = r.value
            /\ currencies' = collect_currency_codes(pairs)
            /\ local' = NewLocal("download_fx_data")
            /\ pc' = "download_fx_data"
            /\ UNCHANGED error
    /\ UNCHANGED <<args, yf, fred, calls, pairs, fx, cpi, aligned, monthly,
                   tables, workbook>>

\* load_usd_fx_rate("USD"): the unit series, no download
LoadUsd ==
    /\ pc = "download_fx_data"
    /\ local.i <= Len(currencies)
    /\ currencies[local.i] = "USD"
    /\ local' = [local EXCEPT !.i = @ + 1,
                              !.acc = Put(@, "USD", usd_series)]
    /\ UNCHANGED <<pc, args, yf, fred, calls, pairs, cpi_overrides, currencies,
                   fx, cpi, aligned, monthly, tables, workbook, error>>

\* load_usd_fx_rate(code): one yf.download and what the loop does with it
YfDownload ==
    /\ pc = "download_fx_data"
    /\ local.i <= Len(currencies)
    /\ currencies[local.i] # "USD"
    /\ LET code == currencies[local.i]
           cand == fx_candidates(code)[local.j]
       IN  \E data \in (IF cand.ticker \in DOMAIN yf THEN {yf[cand.ticker]}
                        ELSE YfResponses(cand.ticker)) :
             LET r == fx_try(data, cand.invert) IN
             /\ yf' = Put(yf, cand.ticker, data)
             /\ calls' = Append(calls, <<"yf.download", cand.ticker>>)
             /\ IF r.ok
                THEN /\ local' = [local EXCEPT
                                     !.i = @ + 1, !.j = 1,
                                     !.acc = Put(@, code, r.series),
                                     !.ids = Put(@, code, cand.ticker)]
                     /\ UNCHANGED <<pc, error>>
                ELSE IF local.j < Len(fx_candidates(code))
                THEN /\ local' = [local EXCEPT !.j = @ + 1]
                     /\ UNCHANGED <<pc, error>>
                ELSE Raise("rate_unavailable") /\ UNCHANGED local
    /\ UNCHANGED <<args, fred, pairs, cpi_overrides, currencies, fx, cpi,
                   aligned, monthly, tables, workbook>>

\* download_fx_data after its loop, and the entry of download_cpi_series
FxConcat ==
    /\ pc = "download_fx_data"
    /\ local.i > Len(currencies)
    /\ LET fx_df == fx_frame(local.acc) IN
       IF fx_df.index = {}
       THEN Raise("no_fx_data") /\ UNCHANGED <<fx, local>>
       ELSE /\ fx' = [df |-> fx_df, sources |-> local.ids]
            /\ local' = NewLocal("download_cpi_series")
            /\ pc' = "download_cpi_series"
            /\ UNCHANGED error
    /\ UNCHANGED <<args, yf, fred, calls, pairs, cpi_overrides, currencies,
                   cpi, aligned, monthly, tables, workbook>>

\* infer_cpi_series_id: one fred.search and what the loop does with it
FredSearch ==
    /\ pc = "download_cpi_series"
    /\ local.i <= Len(currencies)
    /\ ~local.resolved
    /\ ~has_fixed_id(currencies[local.i], cpi_overrides)
    /\ LET term == search_terms(currencies[local.i])[local.j] IN
       \E results \in (IF term \in DOMAIN fred.search THEN {fred.search[term]}
                       ELSE FredSearchResponses(term)) :
         LET r == search_pick(results) IN
         /\ fred' = [fred EXCEPT !.search = Put(@, term, results)]
         /\ calls' = Append(calls, <<"fred.search", term>>)
         /\ IF r.found
            THEN /\ local' = [local EXCEPT !.resolved = TRUE, !.id = r.id]
                 /\ UNCHANGED <<pc, error>>
            ELSE IF local.j < Len(search_terms(currencies[local.i]))
            THEN /\ local' = [local EXCEPT !.j = @ + 1]
                 /\ UNCHANGED <<pc, error>>
            ELSE Raise("cpi_series_unresolved") /\ UNCHANGED local
    /\ UNCHANGED <<args, yf, pairs, cpi_overrides, currencies, fx, cpi, aligned,
                   monthly, tables, workbook>>

\* download_cpi_series: the series id (from the override or the fixed table
\* when there is one), fred.get_series, and the fill
FredGetSeries ==
    /\ pc = "download_cpi_series"
    /\ local.i <= Len(currencies)
    /\ local.resolved \/ has_fixed_id(currencies[local.i], cpi_overrides)
    /\ LET code == currencies[local.i]
           series_id == IF has_fixed_id(code, cpi_overrides)
                        THEN fixed_id(code, cpi_overrides) ELSE local.id
       IN  \E series \in (IF series_id \in DOMAIN fred.series
                          THEN {fred.series[series_id]}
                          ELSE FredSeriesResponses(series_id)) :
             /\ fred' = [fred EXCEPT !.series = Put(@, series_id, series)]
             /\ calls' = Append(calls, <<"fred.get_series", series_id>>)
             /\ IF DOMAIN series = {}
                THEN Raise("cpi_series_empty") /\ UNCHANGED local
                ELSE /\ local' = [local EXCEPT
                                     !.i = @ + 1, !.j = 1, !.resolved = FALSE,
                                     !.id = "",
                                     !.acc = Put(@, code, fill_daily(series)),
                                     !.ids = Put(@, code, series_id)]
                     /\ UNCHANGED <<pc, error>>
    /\ UNCHANGED <<args, yf, pairs, cpi_overrides, currencies, fx, cpi, aligned,
                   monthly, tables, workbook>>

\* download_cpi_series after its loop
CpiConcat ==
    /\ pc = "download_cpi_series"
    /\ local.i > Len(currencies)
    /\ LET cpi_df == cpi_frame(local.acc) IN
       IF cpi_df.index = {}
       THEN Raise("no_cpi_data") /\ UNCHANGED cpi
       ELSE /\ cpi' = [df |-> cpi_df, series |-> local.ids]
            /\ pc' = "align_datasets"
            /\ UNCHANGED error
    /\ UNCHANGED <<args, yf, fred, calls, pairs, cpi_overrides, currencies, fx,
                   aligned, monthly, tables, workbook, local>>

Align ==
    /\ pc = "align_datasets"
    /\ LET r == align_datasets(fx.df, cpi.df) IN
       IF r.error # "none"
       THEN Raise(r.error) /\ UNCHANGED aligned
       ELSE /\ aligned' = [fx |-> r.fx, cpi |-> r.cpi]
            /\ pc' = "resample_monthly"
            /\ UNCHANGED error
    /\ UNCHANGED <<args, yf, fred, calls, pairs, cpi_overrides, currencies, fx,
                   cpi, monthly, tables, workbook, local>>

ResampleMonthly ==
    /\ pc = "resample_monthly"
    /\ LET r == resample_monthly(aligned.fx, aligned.cpi) IN
       IF r.error # "none"
       THEN Raise(r.error) /\ UNCHANGED monthly
       ELSE /\ monthly' = [fx |-> r.fx, cpi |-> r.cpi]
            /\ pc' = "build_inflation_report"
            /\ UNCHANGED error
    /\ UNCHANGED <<args, yf, fred, calls, pairs, cpi_overrides, currencies, fx,
                   cpi, aligned, tables, workbook, local>>

BuildReport ==
    /\ pc = "build_inflation_report"
    /\ LET r == build_inflation_report(monthly.fx, monthly.cpi, pairs,
                                       args.amount) IN
       IF r.error # "none"
       THEN Raise(r.error) /\ UNCHANGED tables
       ELSE /\ tables' = [tables EXCEPT !.detail = r.value]
            /\ pc' = "build_tables"
            /\ UNCHANGED error
    /\ UNCHANGED <<args, yf, fred, calls, pairs, cpi_overrides, currencies, fx,
                   cpi, aligned, monthly, workbook, local>>

\* create_summary and build_sources_table
BuildTables ==
    /\ pc = "build_tables"
    /\ tables' = [tables EXCEPT
                     !.summary = create_summary(tables.detail),
                     !.sources = build_sources_table(currencies, fx.sources,
                                                     cpi.series)]
    /\ pc' = "save_to_excel"
    /\ UNCHANGED <<args, yf, fred, calls, pairs, cpi_overrides, currencies, fx,
                   cpi, aligned, monthly, workbook, error, local>>

SaveToExcel ==
    /\ pc = "save_to_excel"
    /\ workbook' = save_to_excel(tables.summary, tables.detail, tables.sources)
    /\ pc' = "done"
    /\ UNCHANGED <<args, yf, fred, calls, pairs, cpi_overrides, currencies, fx,
                   cpi, aligned, monthly, tables, error, local>>

Next ==
    \/ ParsePairs
    \/ CheckFredKey
    \/ ParseOverrides
    \/ LoadUsd
    \/ YfDownload
    \/ FxConcat
    \/ FredSearch
    \/ FredGetSeries
    \/ CpiConcat
    \/ Align
    \/ ResampleMonthly
    \/ BuildReport
    \/ BuildTables
    \/ SaveToExcel

-----------------------------------------------------------------------------
(* Specifications: the same program on different command lines.            *)

MaxTokenLen == 7             \* characters of a pair token

RECURSIVE Strings(_, _)
\* the strings of at most n characters over the alphabet
Strings(alphabet, n) ==
    IF n = 0 THEN {""}
    ELSE LET shorter == Strings(alphabet, n - 1)
         IN  shorter \cup {c \o t : c \in alphabet, t \in shorter}

Args(p, o, amount, key) ==
    [pairs |-> p, cpi_series |-> o, amount |-> amount, fred_key |-> key]

\* a run that takes every step: the reference currency and a searched one
BaselineArgs == {Args(<<"USD-XYZ">>, <<>>, Num(1000), "key")}

\* every stage can fail and the run can succeed
MainArgs ==
    {Args(p, o, Num(1000), k) :
        p \in {<<"AUD-CAD">>, <<"AUDCAD">>, <<>>, <<"AUD-C-D">>, <<"USD-XYZ">>},
        o \in {<<>>, <<"AUD">>, <<"aud = X1">>},
        k \in {"", "key"}}

\* any one token, and lists with blank, valid and invalid tokens
ParseArgs ==
    {Args(<<t>>, <<>>, Num(1000), "key") :
        t \in Strings({"a", "-", " "}, MaxTokenLen)}
    \cup {Args(<<t, u>>, <<>>, Num(1000), "key") :
            t \in {"", "usd-xyz", "usd"}, u \in {" ", "xyz-usd", "xy-usd"}}

\* gap filling: any SGD rate frames, any CNY index series
FillArgs ==
    {Args(<<p>>, <<>>, Num(1000), "key") : p \in {"SGD-SGD", "CNY-CNY"}}

\* series resolution: a fixed currency and a searched one, overridden or not
CpiArgs ==
    {Args(<<"KRW-BRL">>, o, Num(1000), "key") :
        o \in {<<>>, <<"krw=X1">>, <<"BRL = X2">>, <<"KRW=X1", "BRL=X2">>}}

\* the calculator: day-by-day values, and the worked example
ReportArgs ==
    {Args(<<p>>, <<>>, Num(1000), "key") : p \in {"EUR-CHF", "GBP-JPY"}}

Init == \E a \in MainArgs : Start(a)
Spec == Init /\ [][Next]_vars

InitParse == \E a \in ParseArgs \cup BaselineArgs : Start(a)
SpecParse == InitParse /\ [][Next]_vars

InitFill == \E a \in FillArgs \cup BaselineArgs : Start(a)
SpecFill == InitFill /\ [][Next]_vars

InitCpi == \E a \in CpiArgs \cup BaselineArgs : Start(a)
SpecCpi == InitCpi /\ [][Next]_vars

InitReport == \E a \in ReportArgs \cup BaselineArgs : Start(a)
SpecReport == InitReport /\ [][Next]_vars

-----------------------------------------------------------------------------
(* Properties of the pair parser and of the order of the stages.           *)

\* the token after trimming and uppercasing
Normalised(token) == upper(strip(token))

\* a single "-" splits the token into two segments of three characters
WellFormedPair(token) ==
    LET c == Normalised(token) IN
    /\ Len(c) = 7
    /\ {i \in 1..Len(c) : CharAt(c, i) = "-"} = {4}

NonBlankTokens == SelectSeq(args.pairs, LAMBDA t : strip(t) # "")

\* C1: once parse_currency_pairs has run, the pair list is the list of the
\* normalised non-blank tokens if each of them is split by a single "-" into
\* two segments of three characters, and otherwise the parser has failed with
\* the invalid-pair-format error and has returned no pair list.
C1_PairFormat ==
    pc # "parse_currency_pairs" =>
        IF \E k \in DOMAIN NonBlankTokens : ~WellFormedPair(NonBlankTokens[k])
        THEN error \in InvalidPairFormat /\ pairs = <<>>
        ELSE NonBlankTokens # <<>> =>
                /\ error \notin InvalidPairFormat
                /\ pairs = [k \in DOMAIN NonBlankTokens |->
                               Normalised(NonBlankTokens[k])]

\* q is the stage main enters when stage p returns
StageAfter(p, q) ==
    \E k \in 1..(Len(Stages) - 1) : Stages[k] = p /\ Stages[k + 1] = q

\* C6: every step of a run either stays in its stage without an error, or
\* moves to the next stage of main without an error, or ends the run with an
\* error; a run that has ended takes no further step, so no stage is
\* retried; and the workbook is written only by the save_to_excel stage,
\* which is reached only through all the stages before it, with no error.
C6_WriterLast ==
    [][ /\ pc \notin {"failed", "done"}
        /\ \/ pc' = pc /\ error' = "none"
           \/ pc' = "failed" /\ error' # "none" /\ workbook' = workbook
           \/ StageAfter(pc, pc') /\ error' = "none"
        /\ error = "none"
        /\ workbook' # workbook => pc = "save_to_excel" /\ pc' = "done"
      ]_vars

\* a run that went through every stage and wrote the workbook
C6_Written == pc = "done" /\ workbook # <<>> /\ error = "none"

-----------------------------------------------------------------------------
(* Properties of the rate download and of the gap filling.                 *)

\* the dates on which a raw series holds an observation
Observed(s) == {t \in DOMAIN s : ~isna(s[t])}

\* the observation of s in force on day t
LastObservation(s, t) == s[SetMax({u \in Observed(s) : u <= t})]

Fetched(ticker) ==
    \E n \in DOMAIN calls : calls[n] = <<"yf.download", ticker>>

CallNo(ticker) ==
    CHOOSE n \in DOMAIN calls : calls[n] = <<"yf.download", ticker>>

\* the download of the ticker yielded at least one observation
Yields(ticker) ==
    /\ ticker \in DOMAIN yf
    /\ yf[ticker].has_close
    /\ Observed(yf[ticker].close) # {}

\* C2: in download_fx_data, for a currency other than USD the inverted
\* ticker is fetched only after the direct one has yielded nothing; a
\* currency that has been loaded has the direct ticker and its values when
\* the direct download yielded an observation (the inverted ticker is then
\* not fetched), and otherwise the inverted ticker and the reciprocals of
\* its values; the rate-unavailable error is raised exactly when both
\* downloads yielded nothing.  USD is loaded as the series of 1.0 on every
\* day, with no ticker and no download.
C2_CandidateOrder ==
    local.fn = "download_fx_data" =>
      \A k \in DOMAIN currencies :
        LET code == currencies[k]
            direct == code \o "USD=X"
            inverse == "USD" \o code \o "=X"
            loaded == k < local.i
        IN  IF code = "USD"
            THEN /\ ~Fetched(direct)
                 /\ loaded => /\ local.acc[code] = [t \in Days |-> Num(1)]
                              /\ code \notin DOMAIN local.ids
            ELSE /\ Fetched(inverse) =>
                       /\ Fetched(direct)
                       /\ CallNo(direct) < CallNo(inverse)
                       /\ ~Yields(direct)
                 /\ loaded =>
                       IF Yields(direct)
                       THEN /\ ~Fetched(inverse)
                            /\ local.ids[code] = direct
                            /\ DOMAIN local.acc[code] # {}
                            /\ \A t \in DOMAIN local.acc[code] :
                                  local.acc[code][t] =
                                      LastObservation(yf[direct].close, t)
                       ELSE /\ Yields(inverse)
                            /\ local.ids[code] = inverse
                            /\ DOMAIN local.acc[code] # {}
                            /\ \A t \in DOMAIN local.acc[code] :
                                  local.acc[code][t] =
                                      Recip(LastObservation(yf[inverse].close, t))
                 /\ (k = local.i /\ error = "rate_unavailable")
                       <=> /\ Fetched(direct) /\ ~Yields(direct)
                           /\ Fetched(inverse) /\ ~Yields(inverse)

\* a currency loaded from the inverted ticker
C2_LoadedInverted ==
    /\ local.fn = "download_fx_data"
    /\ "SGD" \in DOMAIN local.ids
    /\ local.ids["SGD"] = "USDSGD=X"
    /\ Fetched("SGDUSD=X")

\* filled is raw forward-filled over the calendar days
FillsForward(raw, filled, inverted) ==
    LET obs == Observed(raw) IN
    /\ \A a, b \in DOMAIN filled : \A t \in a..b : t \in DOMAIN filled
    /\ \A t \in DOMAIN filled : (obs = {} \/ t < SetMin(obs)) => isna(filled[t])
    /\ obs # {} =>
          \A t \in SetMin(obs)..SetMax(obs) :
             /\ t \in DOMAIN filled
             /\ filled[t] = IF inverted THEN Recip(LastObservation(raw, t))
                            ELSE LastObservation(raw, t)

\* C8: every filled rate series and every filled index series has, on each
\* day from the first to the last observation of the raw series, the
\* observation of the greatest date not after that day (its reciprocal for an
\* inverted rate), has no value before the first observation, and covers
\* consecutive days.
C8_ForwardFill ==
    /\ local.fn = "download_fx_data" =>
          \A code \in DOMAIN local.ids :
             FillsForward(yf[local.ids[code]].close, local.acc[code],
                          local.ids[code] = "USD" \o code \o "=X")
    /\ local.fn = "download_cpi_series" =>
          \A code \in DOMAIN local.ids :
             FillsForward(fred.series[local.ids[code]], local.acc[code], FALSE)

\* an index series in which a day without an observation has been filled
C8_GapFilled ==
    /\ local.fn = "download_cpi_series"
    /\ "CNY" \in DOMAIN local.ids
    /\ \E t \in DOMAIN local.acc["CNY"] :
          /\ t \notin Observed(fred.series[local.ids["CNY"]])
          /\ ~isna(local.acc["CNY"][t])

-----------------------------------------------------------------------------
(* Properties of the index series resolution.                              *)

\* the search term was made for the currency
TermOf(code, term) ==
    Len(term) >= Len(code) /\ SubSeq(term, 1, Len(code)) = code

\* C3: in download_cpi_series, a currency with an override gets the
\* override's series id, table entry or not; a currency without an override
\* and with an entry in the fixed table gets the entry; and for neither of
\* them is a catalog search issued.
C3_Precedence ==
    local.fn = "download_cpi_series" =>
      \A k \in DOMAIN currencies :
        LET code == currencies[k] IN
        (code \in DOMAIN cpi_overrides \/ code \in DOMAIN manual_defaults) =>
           /\ \A n \in DOMAIN calls :
                 calls[n][1] = "fred.search" => ~TermOf(code, calls[n][2])
           /\ k < local.i =>
                 /\ local.ids[code] =
                       IF code \in DOMAIN cpi_overrides THEN cpi_overrides[code]
                       ELSE manual_defaults[code]
                 /\ \E n \in DOMAIN calls :
                       calls[n] = <<"fred.get_series", local.ids[code]>>

\* an override given for a currency of the fixed table, and used
C3_OverrideUsed ==
    /\ local.fn = "download_cpi_series"
    /\ "KRW" \in DOMAIN cpi_overrides
    /\ "KRW" \in DOMAIN manual_defaults
    /\ "KRW" \in DOMAIN local.ids

\* a row of a search result that is monthly and a consumer price index
IsMonthlyCpi(r) ==
    /\ str_contains(r.frequency, "monthly")
    /\ str_contains(r.title, "consumer price index")

IsAllItems(r) == str_contains(r.title, "all items")

\* the candidates among the rows of a search result
Candidates(results) ==
    IF results.is_none THEN <<>>
    ELSE LET cpi_rows == SelectSeq(results.rows, IsMonthlyCpi)
             narrowed == SelectSeq(cpi_rows, IsAllItems)
         IN  IF narrowed # <<>> THEN narrowed ELSE cpi_rows

\* the ids of the rows no other row is sorted before
FirstIds(rows) ==
    {rows[k].id : k \in {k \in DOMAIN rows :
        \A j \in DOMAIN rows :
           \/ rows[j].popularity < rows[k].popularity
           \/ /\ rows[j].popularity = rows[k].popularity
              /\ rows[j].search_rank >= rows[k].search_rank}}

\* the searches issued for the currency, in order
Searched(code) ==
    SelectSeq(calls, LAMBDA c : c[1] = "fred.search"
                                /\ c[2] \in Range(search_terms(code)))

\* C10: for a currency with neither an override nor an entry in the fixed
\* table, the searches issued are the first terms of the list, in order; every
\* search before the last one issued had no candidate; the currency is
\* resolved exactly by a search that has candidates, to the id of a candidate
\* of the highest popularity and, among these, of the lowest search rank;
\* and the index-series-unresolved error is raised exactly when all the
\* terms have been searched and none had a candidate.
C10_SearchOrder ==
    local.fn = "download_cpi_series" =>
      \A k \in {k \in DOMAIN currencies : k <= local.i} :
        LET code == currencies[k]
            terms == search_terms(code)
            asked == Searched(code)
            m == Len(asked)
            resolved == k < local.i \/ local.resolved
            id == IF k < local.i THEN local.ids[code] ELSE local.id
            none_before(n) ==
                \A q \in 1..(n - 1) : Candidates(fred.search[terms[q]]) = <<>>
        IN  (code \notin DOMAIN cpi_overrides /\ code \notin DOMAIN manual_defaults)
            =>
            /\ m <= Len(terms)
            /\ \A n \in 1..m : asked[n][2] = terms[n]
            /\ none_before(m)
            /\ IF resolved
               THEN /\ m >= 1
                    /\ Candidates(fred.search[terms[m]]) # <<>>
                    /\ id \in FirstIds(Candidates(fred.search[terms[m]]))
               ELSE none_before(m + 1)
            /\ (k = local.i /\ error = "cpi_series_unresolved")
                  <=> (~resolved /\ m = Len(terms))

\* a currency resolved by its second search
C10_SecondSearch ==
    /\ local.fn = "download_cpi_series"
    /\ "BRL" \notin DOMAIN cpi_overrides
    /\ "BRL" \in DOMAIN local.ids
    /\ Len(Searched("BRL")) = 2

-----------------------------------------------------------------------------
(* Properties of the alignment.                                            *)

\* the days on which the filled rate series of the currency has a value
RateCalendar(code) ==
    IF code = "USD" THEN Days
    ELSE LET tickers == IF local.fn = "download_fx_data" THEN local.ids
                        ELSE fx.sources
             obs == Observed(yf[tickers[code]].close)
         IN  SetMin(obs)..SetMax(obs)

\* the days on which the filled index series of the currency has a value
IndexCalendar(code) ==
    LET raw == fred.series[local.ids[code]]
    IN  {t \in SetMin(DOMAIN raw)..SetMax(DOMAIN raw) :
            \E u \in Observed(raw) : u <= t}

RatesOverlap ==
    {t \in Days : \A c \in Range(currencies) : t \in RateCalendar(c)}

IndexesOverlap ==
    {t \in Days : \A c \in Range(currencies) : t \in IndexCalendar(c)}

\* every rate series has been loaded / every index series too
RatesLoaded == local.fn = "download_fx_data" /\ local.i > Len(currencies)
AllLoaded == local.fn = "download_cpi_series" /\ local.i > Len(currencies)

\* both datasets are on the calendar, which is not empty
AlignedOn(calendar) ==
    /\ calendar # {}
    /\ aligned.fx.index = calendar
    /\ aligned.cpi.index = calendar
    /\ \A c \in Range(currencies) :
          /\ DOMAIN aligned.fx.data[c] = calendar
          /\ DOMAIN aligned.cpi.data[c] = calendar

\* C7: once align_datasets has returned, the rate dataset and the index
\* dataset have the same calendar, which is the set of the days on which
\* every filled rate series and every filled index series has a value, and
\* it is not empty.  When the intersection is empty the run fails: with the
\* no-rate-data error of download_fx_data if the rate series alone share no
\* day, with the no-index-data error of download_cpi_series if the index
\* series alone share no day, and with the no-common-period error of
\* align_datasets otherwise.
C7_SharedCalendar ==
    /\ (RatesLoaded /\ pc = "failed") =>
          RatesOverlap = {} /\ error = "no_fx_data"
    /\ local.fn = "download_cpi_series" => RatesOverlap # {}
    /\ (AllLoaded /\ pc = "align_datasets") => IndexesOverlap # {}
    /\ (AllLoaded /\ pc \notin {"download_cpi_series", "align_datasets"}) =>
          IF IndexesOverlap = {}
          THEN pc = "failed" /\ error = "no_cpi_data"
          ELSE IF RatesOverlap \cap IndexesOverlap = {}
          THEN pc = "failed" /\ error = "no_common_period"
          ELSE /\ error \notin {"no_fx_data", "no_cpi_data", "no_common_period"}
               /\ AlignedOn(RatesOverlap \cap IndexesOverlap)

\* C7 as stated: the calendars are the intersection, and whenever the
\* intersection is empty the run fails with the no-overlapping-period error
\* (the one align_datasets raises).
C7_NoOverlappingPeriod ==
    /\ (RatesLoaded /\ pc # "download_fx_data" /\ RatesOverlap = {}) =>
          pc = "failed" /\ error = "no_common_period"
    /\ (AllLoaded /\ pc \notin {"download_cpi_series", "align_datasets"}) =>
          IF RatesOverlap \cap IndexesOverlap = {}
          THEN pc = "failed" /\ error = "no_common_period"
          ELSE AlignedOn(RatesOverlap \cap IndexesOverlap)

\* datasets aligned on a calendar shorter than that of either of them
C7_Aligned ==
    /\ pc = "resample_monthly"
    /\ aligned.fx.index = aligned.cpi.index
    /\ aligned.fx.index # fx.df.index
    /\ aligned.cpi.index # cpi.df.index

-----------------------------------------------------------------------------
(* Properties of the report.                                               *)

Reported == pc \in {"build_tables", "save_to_excel", "done"}

\* the day of the shared calendar whose values the report row of month m
\* holds: the last one of the month
ReportDay(m) == SetMax({t \in aligned.fx.index : month_of(t) = m})

\* the first day of the shared calendar, and the last one of its month
FirstDay == SetMin(aligned.fx.index)
FirstMonthEnd == ReportDay(month_of(FirstDay))

\* rate[code][t] and index[code][t] on the shared calendar
rate(code, t) == aligned.fx.data[code][t]
index(code, t) == aligned.cpi.data[code][t]

\* the two real values of the row, by the formulas, with the base at day t0
RealValuesFrom(r, t0) ==
    LET A == r.Currency_A
        B == r.Currency_B
        t == ReportDay(r.Month)
    IN  /\ r.Real_Value_A =
              Mul(Div(args.amount, Div(index(A, t), index(A, t0))), rate(A, t))
        /\ r.Real_Value_B =
              Mul(Div(Div(Mul(args.amount, rate(A, t0)), rate(B, t0)),
                      Div(index(B, t), index(B, t0))),
                  rate(B, t))

\* C4: every row of the detail table holds, for its pair (A, B) and its
\* month, realValueA = (baseAmount / (index[A][t] / index[A][t0])) * rate[A][t]
\* and realValueB = ((baseAmount * rate[A][t0] / rate[B][t0])
\* / (index[B][t] / index[B][t0])) * rate[B][t], where t is the last day of
\* the month in the shared daily calendar and the base t0 is the last day of
\* the first month of that calendar (the first row of the monthly data).
C4_RealValues ==
    Reported =>
       \A k \in DOMAIN tables.detail :
          RealValuesFrom(tables.detail[k], FirstMonthEnd)

\* C4 as stated: the same formulas with the base t0 at the first day of the
\* shared daily calendar.
C4_BaseAtFirstDay ==
    Reported =>
       \A k \in DOMAIN tables.detail :
          RealValuesFrom(tables.detail[k], FirstDay)

\* a report over two months whose first month has a day before its last one
\* with another index value
C4_BaseNotFirstDay ==
    /\ Reported
    /\ Len(tables.detail) >= 2
    /\ FirstMonthEnd # FirstDay
    /\ \E c \in Range(currencies) :
          /\ index(c, FirstDay) # index(c, FirstMonthEnd)
          /\ \A t \in aligned.fx.index : IsFinite(index(c, t)) /\ index(c, t) # Num(0)

\* the columns of a row that come out of a division
DerivedColumns ==
    {"Inflation_Index_A", "Inflation_Index_B", "Inflation_Change_A",
     "Inflation_Change_B", "Inflation_Difference", "FX_A_B", "Real_Value_A",
     "Real_Value_B", "Purchasing_Power_Ratio"}

\* a division of the calculator has a zero divisor for the pair
ZeroDivisor(pair) ==
    LET A == split(pair, "-")[1]
        B == split(pair, "-")[2]
        t0 == SetMin(monthly.fx.index)
    IN  \/ monthly.cpi.data[A][t0] = Num(0)
        \/ monthly.cpi.data[B][t0] = Num(0)
        \/ monthly.fx.data[A][t0] = Num(0)
        \/ \E t \in monthly.fx.index :
              \/ monthly.fx.data[B][t] = Num(0)
              \/ monthly.cpi.data[A][t] = Num(0)
              \/ monthly.cpi.data[B][t] = Num(0)

\* C5: build_inflation_report returns a detail table only if no division
\* of any pair has a zero divisor (it fails with the computation error
\* otherwise), and no value of a row that comes out of a division is
\* infinite or undefined.
C5_ZeroDivisorFails ==
    /\ error = "computation_error" => pc = "failed"
    /\ Reported =>
          /\ \A k \in DOMAIN pairs : ~ZeroDivisor(pairs[k])
          /\ \A k \in DOMAIN tables.detail :
                \A c \in DerivedColumns : IsFinite(tables.detail[k][c])

\* the worked example: GBP-JPY, 1000 units, two months
Scenario ==
    /\ Reported
    /\ pairs = <<"GBP-JPY">>
    /\ args.amount = Num(1000)
    /\ Cardinality(monthly.fx.index) = 2
    /\ LET t0 == SetMin(monthly.fx.index)
           t1 == SetMax(monthly.fx.index)
       IN  /\ monthly.fx.data["GBP"][t0] = Frac(130, 100)
           /\ monthly.fx.data["JPY"][t0] = Frac(1, 150)
           /\ monthly.cpi.data["GBP"][t0] = Num(100)
           /\ monthly.cpi.data["JPY"][t0] = Num(100)
           /\ monthly.cpi.data["GBP"][t1] = Num(102)
           /\ monthly.cpi.data["JPY"][t1] = Num(101)
           /\ monthly.fx.data["GBP"][t1] = Frac(125, 100)
           /\ monthly.fx.data["JPY"][t1] = Frac(1, 148)

\* the figures of the worked example at t1, real value B being real_b
ScenarioFigures(real_b) ==
    LET r0 == tables.detail[1]
        r1 == tables.detail[2]
    IN  /\ Len(tables.detail) = 2
        /\ r1.Inflation_Index_A = Frac(102, 100)
        /\ Round(r1.Real_Value_A, 2) = Frac(122549, 100)
        /\ Mul(args.amount, r0.FX_A_B) = Num(195000)
        /\ r1.Inflation_Index_B = Frac(101, 100)
        /\ Round(r1.Real_Value_B, 2) = real_b

\* C9: in the worked example the report has inflationIndexA = 1.02,
\* realValueA(t1) = 1225.49, initialAmountB = 195000, inflationIndexB = 1.01
\* and realValueB(t1) = 1304.52, each to two decimal places.
C9_WorkedExample == Scenario => ScenarioFigures(Frac(130452, 100))

\* C9 as stated: the same with realValueB(t1) = 1304.75.
C9_WorkedExampleAsStated == Scenario => ScenarioFigures(Frac(130475, 100))

\* the worked example has been run to the end
C9_ScenarioRun == Scenario /\ pc = "done"

=============================================================================
